---------------------------- MODULE Spec2Model ----------------------------
(***************************************************************************)
(* A model of examples/websocket/python-client.py, the Weft WebSocket      *)
(* example client: main() runs monitor_weft(uri), which connects, sends    *)
(* two subscriptions and then renders every inbound frame with             *)
(* handle_message().                                                       *)
(*                                                                         *)
(* Text is modelled as a sequence of one-character strings, so that        *)
(* str.startswith, str.replace, slicing, substring tests,                  *)
(* datetime.fromisoformat and strftime are computed rather than assumed.   *)
(* A JSON value is a record of its kind and payload.  A dict is a          *)
(* function from key names to JSON values; `key in d` is key \in DOMAIN.   *)
(* One call of print() is one element of the output sequences.             *)
(***************************************************************************)
EXTENDS Integers, Sequences, FiniteSets, TLC

VARIABLES
    pc,          \* where main()/monitor_weft() stands
    ws,          \* the connection: "none", "open" or "closed"
    attempts,    \* how many times websockets.connect(uri) was entered
    sent,        \* the messages given to ws.send(), in order
    wire,        \* the frames the server has delivered so far, in arrival order
    handled,     \* how many frames the `async for` loop has taken
    out,         \* stdout: one element per print() call
    seg,         \* history: for each frame taken, the span of `out` it produced
    sentAtFirst, \* history: Len(sent) when the first frame was taken (-1 before)
    interrupt,   \* "none", or where the one external interrupt was delivered
    stderr,      \* the traceback of an exception nothing caught
    exit         \* "running", "clean", or "uncaught" (non-zero exit status)

vars == <<pc, ws, attempts, sent, wire, handled, out, seg, sentAtFirst,
          interrupt, stderr, exit>>

---------------------------------------------------------------------------
(* JSON values (what json.loads returns)                                   *)

\* Every value has every field, so that any two values can be compared: `k`
\* is the kind, and the payload is `s` (the characters of a str, or names),
\* `n` (a number; 1 or 0 for true or false), `a` (the items of a list) or `o`
\* (the dict, a function from key names to values).
JValue(kind, s, n, a, o) == [k |-> kind, s |-> s, n |-> n, a |-> a, o |-> o]
Str(s)  == JValue("str", s, 0, <<>>, <<>>)
Num(n)  == JValue("num", <<>>, n, <<>>, <<>>)
Bool(b) == JValue("bool", <<>>, IF b THEN 1 ELSE 0, <<>>, <<>>)
Arr(a)  == JValue("arr", <<>>, 0, a, <<>>)
Obj(d)  == JValue("obj", <<>>, 0, <<>>, d)
None    == JValue("null", <<>>, 0, <<>>, <<>>)
EmptyDict == Obj(<<>>)

(* Text literals of the source.                                            *)
T_ack      == <<"a", "c", "k">>
T_event    == <<"e", "v", "e", "n", "t">>
T_stats    == <<"s", "t", "a", "t", "s">>
T_error    == <<"e", "r", "r", "o", "r">>
T_pong     == <<"p", "o", "n", "g">>
T_work     == <<"w", "o", "r", "k", ":">>
T_agent    == <<"a", "g", "e", "n", "t", ":">>
T_target   == <<"t", "a", "r", "g", "e", "t", ":">>
T_spinup   == <<"s", "p", "i", "n", "-", "u", "p", ":">>
T_unknown  == <<"u", "n", "k", "n", "o", "w", "n">>
T_utc      == <<"+", "0", "0", ":", "0", "0">>
T_comma    == <<",", " ">>
T_subscribe == <<"s", "u", "b", "s", "c", "r", "i", "b", "e">>
T_topicWork == <<"w", "o", "r", "k">>
T_topicAgents == <<"a", "g", "e", "n", "t", "s">>

(* The text of a dict key, for the `key in data` tests that can meet a     *)
(* str or a list instead of a dict (the target:/spin-up: branch).          *)
KeyText(key) ==
    CASE key = "targetName"   -> <<"t", "a", "r", "g", "e", "t", "N", "a", "m", "e">>
      [] key = "agentType"    -> <<"a", "g", "e", "n", "t", "T", "y", "p", "e">>
      [] key = "mechanism"    -> <<"m", "e", "c", "h", "a", "n", "i", "s", "m">>
      [] key = "errorMessage" -> <<"e", "r", "r", "o", "r", "M", "e", "s", "s", "a", "g", "e">>
      [] key = "durationMs"   -> <<"d", "u", "r", "a", "t", "i", "o", "n", "M", "s">>

---------------------------------------------------------------------------
(* Python built-ins used by handle_message                                 *)

\* str.startswith(prefix)
startswith(s, prefix) ==
    /\ Len(s) >= Len(prefix)
    /\ SubSeq(s, 1, Len(prefix)) = prefix

\* `sub in s` for two strs
Contains(s, sub) ==
    \E i \in 0..(Len(s) - Len(sub)) : SubSeq(s, i + 1, i + Len(sub)) = sub

\* str.replace(old, new) for a one-character `old`
RECURSIVE replace(_, _, _)
replace(s, old, new) ==
    IF s = <<>> THEN <<>>
    ELSE (IF Head(s) = old THEN new ELSE <<Head(s)>>) \o replace(Tail(s), old, new)

\* x[:n] for a str or a list
Slice(s, n) == SubSeq(s, 1, IF Len(s) < n THEN Len(s) ELSE n)

\* truth value of a JSON value (`'Yes' if x else 'No'`)
Truthy(x) ==
    CASE x.k = "bool" -> x.n = 1
      [] x.k = "num"  -> x.n # 0
      [] x.k = "null" -> FALSE
      [] x.k = "str"  -> x.s # <<>>
      [] x.k = "arr"  -> x.a # <<>>
      [] x.k = "obj"  -> DOMAIN x.o # {}

\* The result of evaluating an expression: a value, or the exception raised.
Val(x)   == [exc |-> "none", val |-> x]
Exc(e)   == [exc |-> e, val |-> None]

\* x[key] for a str key: KeyError on a dict without it, TypeError on
\* anything that is not a dict.
Subscript(x, key) ==
    IF x.k = "obj"
    THEN IF key \in DOMAIN x.o THEN Val(x.o[key]) ELSE Exc("KeyError")
    ELSE Exc("TypeError")

\* x.get(key, default): AttributeError on anything that is not a dict.
Get(x, key, default) ==
    IF x.k = "obj"
    THEN Val(IF key \in DOMAIN x.o THEN x.o[key] ELSE default)
    ELSE Exc("AttributeError")

\* `key in x`: a key test on a dict, a substring test on a str, membership
\* on a list, TypeError on a number, a bool or None.
In(key, x) ==
    CASE x.k = "obj" -> [exc |-> "none", val |-> key \in DOMAIN x.o]
      [] x.k = "str" -> [exc |-> "none", val |-> Contains(x.s, KeyText(key))]
      [] x.k = "arr" -> [exc |-> "none",
                         val |-> \E i \in 1..Len(x.a) : x.a[i] = Str(KeyText(key))]
      [] OTHER       -> [exc |-> "TypeError", val |-> FALSE]

\* x[k1][k2]...: the subscripts applied left to right.
RECURSIVE Path(_, _)
Path(x, keys) ==
    IF keys = <<>> THEN Val(x)
    ELSE LET r == Subscript(x, Head(keys))
         IN  IF r.exc # "none" THEN r ELSE Path(r.val, Tail(keys))

\* ', '.join(x): the items of a list or the characters of a str, each of
\* which must be a str.  A dict joins its keys in insertion order, which a
\* function does not record: that result is kept as the dict, marked.
RECURSIVE JoinItems(_)
JoinItems(items) ==
    IF items = <<>> THEN <<>>
    ELSE IF Len(items) = 1 THEN Head(items).s
    ELSE Head(items).s \o T_comma \o JoinItems(Tail(items))

RECURSIVE JoinChars(_)
JoinChars(s) ==
    IF Len(s) <= 1 THEN s
    ELSE <<Head(s)>> \o T_comma \o JoinChars(Tail(s))

Join(x) ==
    CASE x.k = "arr" ->
           IF \A i \in 1..Len(x.a) : x.a[i].k = "str"
           THEN Val(Str(JoinItems(x.a))) ELSE Exc("TypeError")
      [] x.k = "str" -> Val(Str(JoinChars(x.s)))
      [] x.k = "obj" -> Val(JValue("joinedkeys", <<>>, 0, <<>>, x.o))
      [] OTHER       -> Exc("TypeError")

---------------------------------------------------------------------------
(* datetime.fromisoformat and datetime.strftime('%H:%M:%S')               *)

Digits == {"0", "1", "2", "3", "4", "5", "6", "7", "8", "9"}

DigitValue(c) ==
    CASE c = "0" -> 0 [] c = "1" -> 1 [] c = "2" -> 2 [] c = "3" -> 3
      [] c = "4" -> 4 [] c = "5" -> 5 [] c = "6" -> 6 [] c = "7" -> 7
      [] c = "8" -> 8 [] c = "9" -> 9

DigitChar(n) ==
    CASE n = 0 -> "0" [] n = 1 -> "1" [] n = 2 -> "2" [] n = 3 -> "3"
      [] n = 4 -> "4" [] n = 5 -> "5" [] n = 6 -> "6" [] n = 7 -> "7"
      [] n = 8 -> "8" [] n = 9 -> "9"

AllDigits(s) == \A i \in 1..Len(s) : s[i] \in Digits

RECURSIVE ToInt(_)
ToInt(s) == IF s = <<>> THEN 0 ELSE 10 * ToInt(SubSeq(s, 1, Len(s) - 1)) + DigitValue(s[Len(s)])

IsLeap(y) == (y % 4 = 0) /\ ((y % 100 # 0) \/ (y % 400 = 0))

DaysInMonth(y, m) ==
    CASE m \in {1, 3, 5, 7, 8, 10, 12} -> 31
      [] m \in {4, 6, 9, 11}           -> 30
      [] OTHER                         -> IF IsLeap(y) THEN 29 ELSE 28

\* The position of the UTC-offset sign in the time part, 0 when there is none.
TzPos(t) ==
    IF \E i \in 1..Len(t) : t[i] \in {"+", "-"}
    THEN CHOOSE i \in 1..Len(t) :
            /\ t[i] \in {"+", "-"}
            /\ \A j \in 1..(i - 1) : t[j] \notin {"+", "-"}
    ELSE 0

\* HH[:MM[:SS[.fff[fff]]]], the clock part of an ISO timestamp.
ClockOk(c) ==
    /\ Len(c) \in {2, 5, 8, 12, 15}
    /\ AllDigits(SubSeq(c, 1, 2))
    /\ Len(c) >= 5  => (c[3] = ":" /\ AllDigits(SubSeq(c, 4, 5)))
    /\ Len(c) >= 8  => (c[6] = ":" /\ AllDigits(SubSeq(c, 7, 8)))
    /\ Len(c) >= 12 => (c[9] = "." /\ AllDigits(SubSeq(c, 10, Len(c))))

\* [+-]HH:MM, the UTC offset of an ISO timestamp.
OffsetOk(z) ==
    /\ Len(z) = 6
    /\ AllDigits(SubSeq(z, 2, 3))
    /\ z[4] = ":"
    /\ AllDigits(SubSeq(z, 5, 6))
    /\ ToInt(SubSeq(z, 2, 3)) * 60 + ToInt(SubSeq(z, 5, 6)) < 24 * 60

\* datetime.fromisoformat(s): YYYY-MM-DD, then optionally any one separator
\* and HH[:MM[:SS[.fff[fff]]]][+HH:MM], the grammar every interpreter that
\* has fromisoformat accepts.  The result keeps the fields as written and
\* the offset beside them; nothing is converted.
fromisoformat(s) ==
    LET dateOk == /\ Len(s) >= 10
                  /\ AllDigits(SubSeq(s, 1, 4))
                  /\ s[5] = "-"
                  /\ AllDigits(SubSeq(s, 6, 7))
                  /\ s[8] = "-"
                  /\ AllDigits(SubSeq(s, 9, 10))
        year   == ToInt(SubSeq(s, 1, 4))
        month  == ToInt(SubSeq(s, 6, 7))
        day    == ToInt(SubSeq(s, 9, 10))
        t      == SubSeq(s, 12, Len(s))
        zp     == TzPos(t)
        clock  == IF zp = 0 THEN t ELSE SubSeq(t, 1, zp - 1)
        zone   == IF zp = 0 THEN <<>> ELSE SubSeq(t, zp, Len(t))
        hour   == ToInt(SubSeq(clock, 1, 2))
        minute == IF Len(clock) >= 5 THEN ToInt(SubSeq(clock, 4, 5)) ELSE 0
        second == IF Len(clock) >= 8 THEN ToInt(SubSeq(clock, 7, 8)) ELSE 0
        sign   == IF zone[1] = "-" THEN -1 ELSE 1
        offset == sign * (ToInt(SubSeq(zone, 2, 3)) * 60 + ToInt(SubSeq(zone, 5, 6)))
        bad    == Exc("ValueError")
    IN  IF ~dateOk THEN bad
        ELSE IF year < 1 \/ month \notin 1..12 \/ day \notin 1..DaysInMonth(year, month) THEN bad
        ELSE IF Len(s) = 10
             THEN Val([year |-> year, month |-> month, day |-> day, hour |-> 0,
                       minute |-> 0, second |-> 0, aware |-> FALSE, utcoffset |-> 0])
        ELSE IF Len(s) = 11 \/ ~ClockOk(clock) THEN bad
        ELSE IF hour > 23 \/ minute > 59 \/ second > 59 THEN bad
        ELSE IF zp # 0 /\ ~OffsetOk(zone) THEN bad
        ELSE Val([year |-> year, month |-> month, day |-> day, hour |-> hour,
                  minute |-> minute, second |-> second, aware |-> zp # 0,
                  utcoffset |-> IF zp = 0 THEN 0 ELSE offset])

TwoDigits(n) == <<DigitChar(n \div 10), DigitChar(n % 10)>>

\* dt.strftime('%H:%M:%S')
strftime(dt) ==
    TwoDigits(dt.hour) \o <<":">> \o TwoDigits(dt.minute) \o <<":">> \o TwoDigits(dt.second)

\* datetime.fromisoformat(x.replace('Z', '+00:00')).strftime('%H:%M:%S') for
\* a JSON value x: AttributeError unless x is a str.
FormatTimestamp(x) ==
    IF x.k # "str" THEN Exc("AttributeError")
    ELSE LET r == fromisoformat(replace(x.s, "Z", T_utc))
         IN  IF r.exc # "none" THEN r ELSE Val(Str(strftime(r.val)))

---------------------------------------------------------------------------
(* handle_message(msg)                                                     *)

\* One print() call: which line of the source printed, and the values the
\* f-string interpolated, in order.
Line(label, vals) == [label |-> label, val |-> vals]
Blank == Line("", <<>>)

\* What a statement did: the lines it printed, and the exception that ended
\* it ("none" when it completed).
Printed(lines) == [lines |-> lines, exc |-> "none"]
Raised(e)      == [lines |-> <<>>, exc |-> e]
Started        == Printed(<<>>)
Raise(r, e)    == IF r.exc = "none" THEN [r EXCEPT !.exc = e] ELSE r

RECURSIVE Concat(_, _)
Concat(results, n) ==
    IF n = 0 THEN <<>> ELSE Concat(results, n - 1) \o results[n].lines

\* Statements in sequence: each runs after the one before it completed, and
\* the first exception ends the sequence with what was printed until then.
Sequence(results) ==
    LET failed == {i \in 1..Len(results) : results[i].exc # "none"}
        last   == IF failed = {} THEN Len(results)
                  ELSE CHOOSE i \in failed : \A j \in failed : i <= j
    IN  [lines |-> Concat(results, last),
         exc   |-> IF failed = {} THEN "none" ELSE results[last].exc]

\* if key in data: print(f"  <label>: {data[key]}")
PrintIfIn(data, key, label) ==
    LET t == In(key, data)
        x == Subscript(data, key)
    IN  IF t.exc # "none" THEN Raised(t.exc)
        ELSE IF ~t.val THEN Started
        ELSE IF x.exc # "none" THEN Raised(x.exc)
        ELSE Printed(<<Line(label, <<x.val>>)>>)

\* print(f"  Task ID: {data.get('taskId', 'unknown')}")
PrintTaskId(data) ==
    LET id == Get(data, "taskId", Str(T_unknown))
    IN  IF id.exc # "none" THEN Raised(id.exc)
        ELSE Printed(<<Line("Task ID", <<id.val>>)>>)

\* if 'assignedTo' in data: the nested agentType when assignedToAgent has
\* one, else the raw assignedTo.  `data` is a dict here.
PrintAssignedTo(data) ==
    IF "assignedTo" \notin DOMAIN data.o THEN Started
    ELSE LET a == Get(data, "assignedToAgent", EmptyDict)
             t == Get(a.val, "agentType", data.o["assignedTo"])
         IN  IF t.exc # "none" THEN Raised(t.exc)
             ELSE Printed(<<Line("Assigned to", <<t.val>>)>>)

\* RenderWork with the task id printed only when it is present, like the
\* other fields.
RenderWork_TaskIdIfPresent(data) ==
    IF data.k # "obj" THEN PrintTaskId(data)
    ELSE Sequence(<<PrintIfIn(data, "taskId", "Task ID"),
                    PrintIfIn(data, "capability", "Capability"),
                    PrintIfIn(data, "boundary", "Boundary"),
                    PrintIfIn(data, "priority", "Priority"),
                    PrintIfIn(data, "description", "Description"),
                    PrintAssignedTo(data),
                    PrintIfIn(data, "errorMessage", "Error"),
                    PrintIfIn(data, "summary", "Summary"),
                    PrintIfIn(data, "progress", "Progress")>>)

\* The event.startswith('work:') branch.  data.get comes first, so data
\* that is not a dict raises before any field is looked at.
RenderWork(data) ==
    IF data.k # "obj" THEN PrintTaskId(data)
    ELSE Sequence(<<PrintTaskId(data),
                    PrintIfIn(data, "capability", "Capability"),
                    PrintIfIn(data, "boundary", "Boundary"),
                    PrintIfIn(data, "priority", "Priority"),
                    PrintIfIn(data, "description", "Description"),
                    PrintAssignedTo(data),
                    PrintIfIn(data, "errorMessage", "Error"),
                    PrintIfIn(data, "summary", "Summary"),
                    PrintIfIn(data, "progress", "Progress")>>)

\* agent = data.get('agent', {}); agent.get('guid', 'unknown')[:8] slices a
\* str or a list and raises on anything else; agent.get('agentType',
\* 'unknown'); print(f"  Agent: {agent_id}... ({agent_type})")
PrintAgent(data) ==
    LET agent == Get(data, "agent", EmptyDict)
        guid  == Get(agent.val, "guid", Str(T_unknown))
        kind  == Get(agent.val, "agentType", Str(T_unknown))
    IN  IF agent.exc # "none" THEN Raised(agent.exc)
        ELSE IF guid.exc # "none" THEN Raised(guid.exc)
        ELSE IF guid.val.k \notin {"str", "arr"} THEN Raised("TypeError")
        ELSE Printed(<<Line("Agent", <<[guid.val EXCEPT !.s = Slice(@, 8), !.a = Slice(@, 8)],
                                       kind.val>>)>>)

\* if key in data: print(f"  <label>: {', '.join(data[key])}")
PrintJoined(data, key, label) ==
    IF key \notin DOMAIN data.o THEN Started
    ELSE LET j == Join(data.o[key])
         IN  IF j.exc # "none" THEN Raised(j.exc)
             ELSE Printed(<<Line(label, <<j.val>>)>>)

\* if 'newStatus' in data: previousStatus (default 'unknown') -> newStatus
PrintTransition(data) ==
    IF "newStatus" \notin DOMAIN data.o THEN Started
    ELSE Printed(<<Line("Status", <<Get(data, "previousStatus", Str(T_unknown)).val,
                                    data.o["newStatus"]>>)>>)

\* if 'graceful' in data: Yes or No by the truth value
PrintGraceful(data) ==
    IF "graceful" \notin DOMAIN data.o THEN Started
    ELSE Printed(<<Line("Graceful", <<Str(IF Truthy(data.o["graceful"])
                                          THEN <<"Y", "e", "s">> ELSE <<"N", "o">>)>>)>>)

\* The event.startswith('agent:') branch.  data.get comes first here too.
RenderAgent(data) ==
    IF data.k # "obj" THEN PrintAgent(data)
    ELSE Sequence(<<PrintAgent(data),
                    PrintIfIn(data, "status", "Status"),
                    PrintTransition(data),
                    PrintIfIn(data, "currentTaskCount", "Tasks"),
                    PrintJoined(data, "capabilities", "Capabilities"),
                    PrintJoined(data, "boundaries", "Boundaries"),
                    PrintIfIn(data, "reason", "Reason"),
                    PrintGraceful(data)>>)

\* The event.startswith('target:') or event.startswith('spin-up:') branch.
\* Nothing reads data before the `in` tests, which a str or a list passes.
RenderTarget(data) ==
    Sequence(<<PrintIfIn(data, "targetName", "Target"),
               PrintIfIn(data, "agentType", "Agent Type"),
               PrintIfIn(data, "mechanism", "Mechanism"),
               PrintIfIn(data, "errorMessage", "Error"),
               PrintIfIn(data, "durationMs", "Duration")>>)

\* RenderEventData with `prefix in event` for event.startswith(prefix).
RenderEventData_Substring(event, data) ==
    IF event.k # "str" THEN Raised("AttributeError")
    ELSE IF Contains(event.s, T_work) THEN RenderWork(data)
    ELSE IF Contains(event.s, T_agent) THEN RenderAgent(data)
    ELSE IF Contains(event.s, T_target) \/ Contains(event.s, T_spinup)
         THEN RenderTarget(data)
    ELSE Started

\* The if/elif chain on the event name; a name that matches no prefix falls
\* through with nothing printed.
RenderEventData(event, data) ==
    IF event.k # "str" THEN Raised("AttributeError")
    ELSE IF startswith(event.s, T_work) THEN RenderWork(data)
    ELSE IF startswith(event.s, T_agent) THEN RenderAgent(data)
    ELSE IF startswith(event.s, T_target) \/ startswith(event.s, T_spinup)
         THEN RenderTarget(data)
    ELSE Started

\* elif msg_type == 'event'.  `msg` is a dict here.
RenderEvent(msg) ==
    LET ts0   == Subscript(msg, "timestamp")
        ts    == FormatTimestamp(ts0.val)
        event == Subscript(msg, "event")
        data  == Subscript(msg, "data")
    IN  IF ts0.exc # "none" THEN Raised(ts0.exc)
        ELSE IF ts.exc # "none" THEN Raised(ts.exc)
        ELSE IF event.exc # "none" THEN Raised(event.exc)
        ELSE IF data.exc # "none" THEN Raised(data.exc)
        ELSE Sequence(<<Printed(<<Line("event", <<ts.val, event.val>>)>>),
                        RenderEventData(event.val, data.val),
                        Printed(<<Blank>>)>>)

\* print(f"<label> {data[p1]...} {data[p2]...}"): the subscript paths are
\* evaluated left to right and the first failure raises.
RECURSIVE Lookups(_, _)
Lookups(data, paths) ==
    IF paths = <<>> THEN Val(<<>>)
    ELSE LET x == Path(data, Head(paths))
             rest == Lookups(data, Tail(paths))
         IN  IF x.exc # "none" THEN x
             ELSE IF rest.exc # "none" THEN rest
             ELSE [exc |-> "none", val |-> <<x.val>> \o rest.val]

PrintPaths(label, data, paths) ==
    LET x == Lookups(data, paths)
    IN  IF x.exc # "none" THEN Raised(x.exc) ELSE Printed(<<Line(label, x.val)>>)

\* print(f"  <label>: {data['agents']['byStatus'].get(key, 0)}")
PrintByStatus(label, data, key) ==
    LET by == Path(data, <<"agents", "byStatus">>)
        n  == Get(by.val, key, Num(0))
    IN  IF by.exc # "none" THEN Raised(by.exc)
        ELSE IF n.exc # "none" THEN Raised(n.exc)
        ELSE Printed(<<Line(label, <<n.val>>)>>)

\* if 'websocket' in data: connections and subscriptions
PrintWebSocket(data) ==
    LET t == In("websocket", data)
    IN  IF t.exc # "none" THEN Raised(t.exc)
        ELSE IF ~t.val THEN Started
        ELSE PrintPaths("WebSocket", data,
                        << <<"websocket", "connections">>, <<"websocket", "subscriptions">> >>)

\* elif msg_type == 'stats'.  `msg` is a dict here.  data['agents'] is read
\* first, so data that is not a dict raises before the `in` test.
RenderStats(msg) ==
    LET ts0  == Subscript(msg, "timestamp")
        ts   == FormatTimestamp(ts0.val)
        data == Subscript(msg, "data")
        d    == data.val
    IN  IF ts0.exc # "none" THEN Raised(ts0.exc)
        ELSE IF ts.exc # "none" THEN Raised(ts.exc)
        ELSE IF data.exc # "none" THEN Raised(data.exc)
        ELSE Sequence(<<Printed(<<Line("Stats Update", <<ts.val>>)>>),
                        PrintPaths("Agents", d, << <<"agents", "total">> >>),
                        PrintByStatus("Online", d, "online"),
                        PrintByStatus("Busy", d, "busy"),
                        PrintPaths("Work", d,
                                   << <<"work", "pending">>, <<"work", "active">> >>),
                        PrintPaths("Completed", d,
                                   << <<"work", "completed">>, <<"work", "failed">> >>),
                        PrintPaths("Targets", d,
                                   << <<"targets", "available">>, <<"targets", "total">> >>),
                        IF d.k = "obj" THEN PrintWebSocket(d) ELSE Started,
                        Printed(<<Blank>>)>>)

\* if msg_type == 'ack'.  `msg` is a dict here.
RenderAck(msg) ==
    Sequence(<<IF "subscribed" \in DOMAIN msg.o
               THEN Printed(<<Line("Subscribed to topic", <<msg.o["subscribed"]>>),
                              Line("Waiting for events...", <<>>)>>)
               ELSE Started,
               IF "unsubscribed" \in DOMAIN msg.o
               THEN Printed(<<Line("Unsubscribed from topic", <<msg.o["unsubscribed"]>>)>>)
               ELSE Started>>)

\* elif msg_type == 'error'.  `msg` is a dict here.
RenderError(msg) ==
    LET e == Subscript(msg, "error")
    IN  IF e.exc # "none" THEN Raised(e.exc)
        ELSE Printed(<<Line("Error", <<e.val>>)>>)

\* handle_message with msg['type'] for msg.get('type').
handle_message_Subscript(msg) ==
    LET msg_type == IF msg.k = "obj" THEN Subscript(msg, "type") ELSE Exc("AttributeError")
    IN  IF msg_type.exc # "none" THEN Raised(msg_type.exc)
        ELSE IF msg_type.val = Str(T_ack) THEN RenderAck(msg)
        ELSE IF msg_type.val = Str(T_event) THEN RenderEvent(msg)
        ELSE IF msg_type.val = Str(T_stats) THEN RenderStats(msg)
        ELSE IF msg_type.val = Str(T_error) THEN RenderError(msg)
        ELSE Started

\* handle_message(msg): what it prints and the exception it raises, if any.
\* msg.get('type') raises on a value that is not a dict.
handle_message(msg) ==
    LET msg_type == Get(msg, "type", None)
    IN  IF msg_type.exc # "none" THEN Raised(msg_type.exc)
        ELSE IF msg_type.val = Str(T_ack) THEN RenderAck(msg)
        ELSE IF msg_type.val = Str(T_event) THEN RenderEvent(msg)
        ELSE IF msg_type.val = Str(T_stats) THEN RenderStats(msg)
        ELSE IF msg_type.val = Str(T_error) THEN RenderError(msg)
        ELSE IF msg_type.val = Str(T_pong) THEN Started
        ELSE Started

---------------------------------------------------------------------------
(* Exceptions                                                              *)

\* The classes an exception is an instance of.  KeyboardInterrupt and
\* asyncio.CancelledError derive from BaseException only.
Bases(exc) ==
    CASE exc = "JSONDecodeError"       -> {"JSONDecodeError", "ValueError", "Exception"}
      [] exc = "UnicodeDecodeError"    -> {"UnicodeDecodeError", "ValueError", "Exception"}
      [] exc = "ValueError"            -> {"ValueError", "Exception"}
      [] exc = "KeyError"              -> {"KeyError", "Exception"}
      [] exc = "TypeError"             -> {"TypeError", "Exception"}
      [] exc = "AttributeError"        -> {"AttributeError", "Exception"}
      [] exc = "OSError"               -> {"OSError", "Exception"}
      [] exc = "InvalidHandshake"      -> {"InvalidHandshake", "WebSocketException", "Exception"}
      [] exc = "InvalidURI"            -> {"InvalidURI", "WebSocketException", "Exception"}
      [] exc = "ConnectionClosedError" -> {"ConnectionClosedError", "WebSocketException", "Exception"}
      [] exc = "KeyboardInterrupt"     -> {"KeyboardInterrupt"}
      [] exc = "CancelledError"        -> {"CancelledError"}

IsInstance(exc, cls) == cls \in Bases(exc)

\* An exception as print() shows it.
Error(exc) == JValue("exc", <<exc>>, 0, <<>>, <<>>)

---------------------------------------------------------------------------
(* monitor_weft: the message loop                                          *)

\* An inbound frame: a text frame arrives as a str, a binary frame as
\* bytes.  `form` says what the payload is: "json" (the text of the JSON
\* value `value`), "garbage" (text that is not JSON) or, for bytes only,
\* "badutf8" (bytes that are not UTF-8).
Frame(wireKind, form, value) == [wire |-> wireKind, form |-> form, value |-> value]
TextFrame(value)   == Frame("text", "json", value)
BinaryFrame(value) == Frame("binary", "json", value)
Raw(frame) == JValue("frame", <<frame.wire, frame.form>>, 0, <<frame.value>>, <<>>)

\* json.loads(message): bytes are decoded as UTF-8 first, which raises
\* UnicodeDecodeError, a ValueError that is no JSONDecodeError.
json_loads(message) ==
    CASE message.form = "badutf8" -> Exc("UnicodeDecodeError")
      [] message.form = "garbage" -> Exc("JSONDecodeError")
      [] message.form = "json"    -> Val(message.value)

\* PerMessageExcept without its `except Exception` clause.
PerMessageExcept_ParseOnly(message, r) ==
    IF r.exc = "none" THEN r
    ELSE IF IsInstance(r.exc, "JSONDecodeError")
         THEN [lines |-> Append(r.lines, Line("Failed to parse message", <<Raw(message)>>)),
               exc |-> "none"]
    ELSE r

\* PerMessageExcept with a bare `except:` for its last clause.
PerMessageExcept_Bare(message, r) ==
    IF r.exc = "none" THEN r
    ELSE IF IsInstance(r.exc, "JSONDecodeError")
         THEN [lines |-> Append(r.lines, Line("Failed to parse message", <<Raw(message)>>)),
               exc |-> "none"]
    ELSE [lines |-> Append(r.lines, Line("Error handling message", <<Error(r.exc)>>)),
          exc |-> "none"]

\* The except clauses of the loop body, tried in order, for what the try
\* block printed and raised.
PerMessageExcept(message, r) ==
    IF r.exc = "none" THEN r
    ELSE IF IsInstance(r.exc, "JSONDecodeError")
         THEN [lines |-> Append(r.lines, Line("Failed to parse message", <<Raw(message)>>)),
               exc |-> "none"]
    ELSE IF IsInstance(r.exc, "Exception")
         THEN [lines |-> Append(r.lines, Line("Error handling message", <<Error(r.exc)>>)),
               exc |-> "none"]
    ELSE r

\* The try block of the loop body: msg = json.loads(message) and
\* await handle_message(msg).
TryBlock(message) ==
    LET msg == json_loads(message)
    IN  IF msg.exc # "none" THEN Raise(Started, msg.exc) ELSE handle_message(msg.val)

\* One iteration of `async for message in ws`.
LoopBody(message) == PerMessageExcept(message, TryBlock(message))

\* The except clauses of monitor_weft's outer try: the line printed, or
\* "propagate" when neither clause matches.
MonitorExcept(exc) ==
    IF IsInstance(exc, "WebSocketException") THEN Line("WebSocket error", <<Error(exc)>>)
    ELSE IF IsInstance(exc, "KeyboardInterrupt") THEN Line("Shutting down...", <<>>)
    ELSE Line("propagate", <<>>)

\* asyncio.run(): a main task cancelled by the interrupt signal ends the
\* run with KeyboardInterrupt; any other exception of the coroutine is
\* raised as it is.
AsyncioRun(exc) == IF exc = "CancelledError" THEN "KeyboardInterrupt" ELSE exc

\* The except clause of main().
MainExcept(exc) ==
    IF IsInstance(exc, "KeyboardInterrupt") THEN Line("Disconnected", <<>>)
    ELSE Line("propagate", <<>>)

\* `exc` is raised with `printed` on stdout.  Inside monitor_weft's try
\* its except clauses are tried first, and a caught exception lets
\* monitor_weft return; what they let through ends asyncio.run() and meets
\* main()'s except clause, and what that lets through ends the process
\* with a traceback.  Leaving `async with` closes an open connection.
Unwind(exc, insideTry, printed) ==
    LET m == MonitorExcept(exc)
        e == AsyncioRun(exc)
        x == MainExcept(e)
    IN  /\ ws' = IF ws = "open" THEN "closed" ELSE ws
        /\ IF insideTry /\ m.label # "propagate"
           THEN /\ out' = Append(printed, m)
                /\ pc' = "returned"
                /\ UNCHANGED <<stderr, exit>>
           ELSE IF x.label # "propagate"
           THEN /\ out' = Append(printed, x)
                /\ pc' = "done"
                /\ exit' = "clean"
                /\ UNCHANGED stderr
           ELSE /\ out' = printed
                /\ stderr' = Append(stderr, Line("Traceback", <<Error(e)>>))
                /\ pc' = "done"
                /\ exit' = "uncaught"

Subscribe(topic) == Obj([type |-> Str(T_subscribe), topic |-> Str(topic)])

---------------------------------------------------------------------------
(* The frames a server can send                                            *)

TS_Z       == Str(<<"2", "0", "2", "4", "-", "0", "1", "-", "1", "5", "T", "1", "4", ":", "3", "0", ":", "0", "0", "Z">>)
TS_plus2   == Str(<<"2", "0", "2", "4", "-", "0", "1", "-", "1", "5", "T", "1", "6", ":", "3", "0", ":", "0", "0", "+", "0", "2", ":", "0", "0">>)
TS_minus5  == Str(<<"2", "0", "2", "4", "-", "0", "1", "-", "1", "5", "T", "0", "9", ":", "3", "0", ":", "0", "0", "-", "0", "5", ":", "0", "0">>)
TS_millis  == Str(<<"2", "0", "2", "4", "-", "0", "1", "-", "1", "5", "T", "1", "4", ":", "3", "0", ":", "0", "0", ".", "1", "2", "3", "Z">>)
TS_naive   == Str(<<"2", "0", "2", "4", "-", "0", "1", "-", "1", "5", "T", "1", "4", ":", "3", "0", ":", "0", "0">>)
TS_plus10  == Str(<<"2", "0", "2", "4", "-", "0", "1", "-", "1", "6", "T", "0", "0", ":", "3", "0", ":", "0", "0", "+", "1", "0", ":", "0", "0">>)
TS_invalid == Str(<<"y", "e", "s", "t", "e", "r", "d", "a", "y">>)

E_workCreated == Str(<<"w", "o", "r", "k", ":", "c", "r", "e", "a", "t", "e", "d">>)
E_agentReg    == Str(<<"a", "g", "e", "n", "t", ":", "r", "e", "g", "i", "s", "t", "e", "r", "e", "d">>)
E_targetSpin  == Str(<<"t", "a", "r", "g", "e", "t", ":", "s", "p", "i", "n", "-", "u", "p">>)
E_spinStarted == Str(<<"s", "p", "i", "n", "-", "u", "p", ":", "s", "t", "a", "r", "t", "e", "d">>)
E_deployDone  == Str(<<"d", "e", "p", "l", "o", "y", ":", "d", "o", "n", "e">>)

V_guid      == Str(<<"a", "1", "b", "2", "c", "3", "d", "4", "e", "5", "f", "6">>)
V_developer == Str(<<"d", "e", "v", "e", "l", "o", "p", "e", "r">>)
V_online    == Str(<<"o", "n", "l", "i", "n", "e">>)
V_busy      == Str(<<"b", "u", "s", "y">>)
V_text      == Str(<<"t", "y", "p", "e", "s", "c", "r", "i", "p", "t">>)

Event(ts, event, data) ==
    Obj([type |-> Str(T_event), timestamp |-> ts, event |-> event, data |-> data])

Stats(ts, data) == Obj([type |-> Str(T_stats), timestamp |-> ts, data |-> data])

StatsData ==
    [agents  |-> Obj([total |-> Num(5),
                      byStatus |-> Obj([online |-> Num(3), busy |-> Num(2)])]),
     work    |-> Obj([pending |-> Num(4), active |-> Num(1),
                      completed |-> Num(7), failed |-> Num(0)]),
     targets |-> Obj([available |-> Num(2), total |-> Num(3)]),
     websocket |-> Obj([connections |-> Num(1), subscriptions |-> Num(2)])]

F_garbage  == Frame("text", "garbage", None)
F_badutf8  == Frame("binary", "badutf8", None)
F_ack      == TextFrame(Obj([type |-> Str(T_ack), subscribed |-> Str(T_topicWork)]))
F_pong     == BinaryFrame(Obj([type |-> Str(T_pong)]))
F_list     == TextFrame(Arr(<<Num(1)>>))
F_workZ    == TextFrame(Event(TS_Z, E_workCreated,
                  Obj([taskId |-> V_guid, capability |-> V_text,
                       assignedTo |-> V_guid, progress |-> Num(50)])))
F_workPlus2 == TextFrame(Event(TS_plus2, E_workCreated, EmptyDict))
F_noTimestamp == TextFrame(Obj([type |-> Str(T_event), event |-> E_workCreated,
                                data |-> EmptyDict]))
F_agent    == TextFrame(Event(TS_Z, E_agentReg,
                  Obj([agent |-> Obj([guid |-> V_guid, agentType |-> V_developer]),
                       previousStatus |-> V_online, newStatus |-> V_busy,
                       capabilities |-> Arr(<<V_text, V_developer>>),
                       graceful |-> Bool(FALSE)])))
F_target   == TextFrame(Event(TS_minus5, E_targetSpin,
                  Obj([targetName |-> V_text, durationMs |-> Num(120)])))
F_other    == TextFrame(Event(TS_Z, E_deployDone,
                  Obj([taskId |-> V_guid, targetName |-> V_text, status |-> V_online])))
F_stats    == TextFrame(Stats(TS_Z, Obj(StatsData)))
F_statsNoWork == TextFrame(Stats(TS_plus2,
                  Obj([x \in DOMAIN StatsData \ {"work"} |-> StatsData[x]])))
F_error    == TextFrame(Obj([type |-> Str(T_error), error |-> V_text]))
F_errorNoText == TextFrame(Obj([type |-> Str(T_error)]))

\* The frames of the full model.
Frames ==
    {F_garbage, F_badutf8, F_ack, F_pong, F_list, F_workZ, F_workPlus2,
     F_noTimestamp, F_agent, F_target, F_other, F_stats, F_statsNoWork,
     F_error, F_errorNoText}

\* How many frames the server delivers in one run.
MaxFrames == 2

---------------------------------------------------------------------------
(* main() and monitor_weft(uri)                                            *)

Init ==
    /\ pc = "main"
    /\ ws = "none"
    /\ attempts = 0
    /\ sent = <<>>
    /\ wire = <<>>
    /\ handled = 0
    /\ out = <<>>
    /\ seg = <<>>
    /\ sentAtFirst = -1
    /\ interrupt = "none"
    /\ stderr = <<>>
    /\ exit = "running"

\* main() calls asyncio.run(monitor_weft(ws_url)), which prints the
\* connecting line and enters websockets.connect(uri).
Start ==
    /\ pc = "main"
    /\ pc' = "connect"
    /\ out' = Append(out, Line("Connecting to Weft WebSocket", <<>>))
    /\ attempts' = attempts + 1
    /\ UNCHANGED <<ws, sent, wire, handled, seg, sentAtFirst, interrupt, stderr, exit>>

\* The connection opens: the two lines before the first send.
ConnectOk ==
    /\ pc = "connect"
    /\ pc' = "subscribe_work"
    /\ ws' = "open"
    /\ out' = out \o <<Line("Connected to Weft", <<>>),
                       Line("Subscribing to work and agent events...", <<>>)>>
    /\ UNCHANGED <<attempts, sent, wire, handled, seg, sentAtFirst, interrupt, stderr, exit>>

\* ConnectFail with a reconnect: the error is printed and connect is
\* entered again.
ConnectFail_Retry ==
    /\ pc = "connect"
    /\ attempts < 3
    /\ attempts' = attempts + 1
    /\ out' = Append(out, Line("WebSocket error", <<Error("InvalidHandshake")>>))
    /\ UNCHANGED <<pc, ws, sent, wire, handled, seg, sentAtFirst, interrupt, stderr, exit>>

\* websockets.connect raises: a WebSocketException (a rejected handshake, an
\* invalid URI) or an OSError (connection refused, no such host).
ConnectFail ==
    /\ pc = "connect"
    /\ \E exc \in {"InvalidHandshake", "InvalidURI", "OSError"} : Unwind(exc, TRUE, out)
    /\ UNCHANGED <<attempts, sent, wire, handled, seg, sentAtFirst, interrupt>>

\* await ws.send(json.dumps({"type": "subscribe", "topic": "work"}))
SubscribeWork ==
    /\ pc = "subscribe_work"
    /\ pc' = "subscribe_agents"
    /\ sent' = Append(sent, Subscribe(T_topicWork))
    /\ UNCHANGED <<ws, attempts, wire, handled, out, seg, sentAtFirst, interrupt, stderr, exit>>

\* SubscribeAgents with the commented-out stats subscription sent as well.
SubscribeAgents_AndStats ==
    /\ pc = "subscribe_agents"
    /\ pc' = "loop"
    /\ sent' = sent \o <<Subscribe(T_topicAgents), Subscribe(T_stats)>>
    /\ out' = Append(out, Blank)
    /\ UNCHANGED <<ws, attempts, wire, handled, seg, sentAtFirst, interrupt, stderr, exit>>

\* await ws.send(json.dumps({"type": "subscribe", "topic": "agents"})),
\* then print() and into the loop.
SubscribeAgents ==
    /\ pc = "subscribe_agents"
    /\ pc' = "loop"
    /\ sent' = Append(sent, Subscribe(T_topicAgents))
    /\ out' = Append(out, Blank)
    /\ UNCHANGED <<ws, attempts, wire, handled, seg, sentAtFirst, interrupt, stderr, exit>>

\* ws.send raises ConnectionClosedError: the server dropped the connection
\* before the subscription went out.
SendFail ==
    /\ pc \in {"subscribe_work", "subscribe_agents"}
    /\ Unwind("ConnectionClosedError", TRUE, out)
    /\ UNCHANGED <<attempts, sent, wire, handled, seg, sentAtFirst, interrupt>>

\* The server delivers a frame; the library queues it until the loop asks.
Arrive ==
    /\ ws = "open"
    /\ pc # "done"
    /\ Len(wire) < MaxFrames
    /\ \E f \in Frames : wire' = Append(wire, f)
    /\ UNCHANGED <<pc, ws, attempts, sent, handled, out, seg, sentAtFirst, interrupt, stderr, exit>>

\* HandleFrame with a flag carried from one frame to the next: after a
\* frame that failed, the next one is dropped unrendered.
HandleFrame_SkipAfterFailure ==
    /\ pc = "loop"
    /\ handled < Len(wire)
    /\ LET r == LoopBody(wire[handled + 1])
           failedBefore == /\ handled > 0
                           /\ out[Len(out)].label \in {"Error handling message",
                                                       "Failed to parse message"}
           printed == IF failedBefore THEN out ELSE out \o r.lines
       IN  /\ seg' = Append(seg, [from |-> Len(out), to |-> Len(printed)])
           /\ out' = printed
           /\ UNCHANGED <<pc, ws, stderr, exit>>
    /\ handled' = handled + 1
    /\ sentAtFirst' = IF handled = 0 THEN Len(sent) ELSE sentAtFirst
    /\ UNCHANGED <<attempts, sent, wire, interrupt>>

\* `async for message in ws` yields the next queued frame and the loop body
\* runs on it.
HandleFrame ==
    /\ pc = "loop"
    /\ handled < Len(wire)
    /\ LET r == LoopBody(wire[handled + 1])
           printed == out \o r.lines
       IN  /\ seg' = Append(seg, [from |-> Len(out), to |-> Len(printed)])
           /\ IF r.exc = "none"
              THEN /\ out' = printed
                   /\ UNCHANGED <<pc, ws, stderr, exit>>
              ELSE Unwind(r.exc, TRUE, printed)
    /\ handled' = handled + 1
    /\ sentAtFirst' = IF handled = 0 THEN Len(sent) ELSE sentAtFirst
    /\ UNCHANGED <<attempts, sent, wire, interrupt>>

\* The connection ends while the loop waits: a normal close ends the
\* `async for`, an abnormal one raises ConnectionClosedError out of it.
ServerClose ==
    /\ pc = "loop"
    /\ handled = Len(wire)
    /\ \/ /\ pc' = "returned"
          /\ ws' = "closed"
          /\ UNCHANGED <<out, stderr, exit>>
       \/ Unwind("ConnectionClosedError", TRUE, out)
    /\ UNCHANGED <<attempts, sent, wire, handled, seg, sentAtFirst, interrupt>>

\* monitor_weft has returned: asyncio.run() closes its loop and main() ends.
Return ==
    /\ pc = "returned"
    /\ pc' = "done"
    /\ exit' = "clean"
    /\ UNCHANGED <<ws, attempts, sent, wire, handled, out, seg, sentAtFirst, interrupt, stderr>>

\* The external interrupt, outside the loop body.  It reaches the program
\* either as KeyboardInterrupt raised in the code that is running, or as
\* the cancellation of the main task (CancelledError at its await); which
\* one depends on the interpreter and on the instant.  Before monitor_weft
\* enters its try and after it has returned, only main()'s try is around.
Interrupt ==
    /\ interrupt = "none"
    /\ pc \in {"main", "connect", "subscribe_work", "subscribe_agents", "loop", "returned"}
    /\ interrupt' = pc
    /\ \E exc \in {"KeyboardInterrupt", "CancelledError"} :
          Unwind(exc, pc \notin {"main", "returned"}, out)
    /\ UNCHANGED <<attempts, sent, wire, handled, seg, sentAtFirst>>

\* The external interrupt raised as KeyboardInterrupt inside the loop body,
\* after the body has printed any number of its lines.
InterruptInBody ==
    /\ interrupt = "none"
    /\ pc = "loop"
    /\ handled < Len(wire)
    /\ \E n \in 0..Len(LoopBody(wire[handled + 1]).lines) :
          LET message == wire[handled + 1]
              r == PerMessageExcept(message,
                       [lines |-> SubSeq(LoopBody(message).lines, 1, n),
                        exc |-> "KeyboardInterrupt"])
              printed == out \o r.lines
          IN  /\ seg' = Append(seg, [from |-> Len(out), to |-> Len(printed)])
              /\ IF r.exc = "none"
                 THEN /\ out' = printed
                      /\ UNCHANGED <<pc, ws, stderr, exit>>
                 ELSE Unwind(r.exc, TRUE, printed)
    /\ interrupt' = "body"
    /\ handled' = handled + 1
    /\ sentAtFirst' = IF handled = 0 THEN Len(sent) ELSE sentAtFirst
    /\ UNCHANGED <<attempts, sent, wire>>

Next ==
    \/ Start
    \/ ConnectOk
    \/ ConnectFail
    \/ SubscribeWork
    \/ SubscribeAgents
    \/ SendFail
    \/ Arrive
    \/ HandleFrame
    \/ ServerClose
    \/ Return
    \/ Interrupt
    \/ InterruptInBody

Spec == Init /\ [][Next]_vars

---------------------------------------------------------------------------
(* The renderer alone: one frame, already delivered, from a wider set      *)

\* The fields the work: branch looks for, each with a value of its own.
WorkFields ==
    {"taskId", "capability", "boundary", "priority", "description",
     "assignedTo", "errorMessage", "summary", "progress"}

WorkValue(f) ==
    CASE f = "taskId"       -> V_guid
      [] f = "capability"   -> V_text
      [] f = "boundary"     -> Str(<<"s", "r", "c", "/", "a", "p", "i">>)
      [] f = "priority"     -> Num(5)
      [] f = "description"  -> Str(<<"f", "i", "x">>)
      [] f = "assignedTo"   -> Str(<<"a", "g", "e", "n", "t", "-", "7">>)
      [] f = "errorMessage" -> Str(<<"b", "o", "o", "m">>)
      [] f = "summary"      -> Str(<<"d", "o", "n", "e">>)
      [] f = "progress"     -> Num(50)

\* What `assignedToAgent` can hold when it is there: an object with an
\* agentType, an object without one, null, a str.
AssignedToAgentValues == {Obj([agentType |-> V_developer]), EmptyDict, None, V_text}

\* Every choice of the work: fields, without and with an assignedToAgent.
WorkFrames ==
    {TextFrame(Event(TS_Z, E_workCreated, Obj([f \in S |-> WorkValue(f)]))) :
        S \in SUBSET WorkFields}
    \cup
    {TextFrame(Event(TS_Z, E_workCreated,
        Obj([f \in S \cup {"assignedToAgent"} |->
                IF f = "assignedToAgent" THEN a ELSE WorkValue(f)]))) :
        S \in SUBSET WorkFields, a \in AssignedToAgentValues}

\* `type` values the if/elif chain does not know, and pong.
QuietTypes ==
    {Str(T_pong), Str(<<"f", "o", "o">>), Str(<<"P", "o", "n", "g">>), Str(<<"e", "v", "e", "n", "t", "s">>), Str(<<>>),
     Num(1), None, Bool(TRUE), Arr(<<Str(T_event)>>), Obj([type |-> Str(T_event)])}

ExtraFields == {"subscribed", "unsubscribed", "timestamp", "event", "data", "error"}

ExtraValue(f) ==
    CASE f = "timestamp" -> TS_invalid
      [] f = "event"     -> E_workCreated
      [] f = "data"      -> Num(0)
      [] OTHER           -> V_text

TypeFrames ==
    {TextFrame(Obj([f \in S |-> ExtraValue(f)])) : S \in SUBSET ExtraFields}
    \cup
    {TextFrame(Obj([f \in S \cup {"type"} |-> IF f = "type" THEN ty ELSE ExtraValue(f)])) :
        S \in SUBSET ExtraFields, ty \in QuietTypes}

\* Event names around the four prefixes.
EventNames ==
    {E_workCreated, E_agentReg, E_targetSpin, E_spinStarted, E_deployDone,
     Str(<<"w", "o", "r", "k">>), Str(<<"w", "o", "r", "k", ":">>), Str(<<"x", "w", "o", "r", "k", ":", "a">>), Str(<<"W", "o", "r", "k", ":", "a">>), Str(<<"a", "g", "e", "n", "t">>),
     Str(<<"a", "g", "e", "n", "t", "s", ":", "a">>), Str(<<"t", "a", "r", "g", "e", "t">>), Str(<<"s", "p", "i", "n", "-", "u", "p">>), Str(<<"s", "p", "i", "n", "u", "p", ":", "a">>),
     Str(<<" ", "w", "o", "r", "k", ":", "a">>), Str(<<"s", "t", "a", "t", "s">>), Str(<<>>)}

\* A payload with the keys of every branch at once.
AllKeysData ==
    [taskId |-> V_guid, capability |-> V_text, boundary |-> V_text,
     priority |-> Num(5), description |-> V_text, assignedTo |-> V_guid,
     errorMessage |-> V_text, summary |-> V_text, progress |-> Num(50),
     agent |-> Obj([guid |-> V_guid, agentType |-> V_developer]),
     status |-> V_online, newStatus |-> V_busy, currentTaskCount |-> Num(2),
     capabilities |-> Arr(<<V_text>>), boundaries |-> Arr(<<>>),
     reason |-> V_text, graceful |-> Bool(TRUE),
     targetName |-> V_text, agentType |-> V_developer, mechanism |-> V_text,
     durationMs |-> Num(120)]

DataValues ==
    {Obj(AllKeysData), EmptyDict, Str(<<"t", "a", "r", "g", "e", "t", "N", "a", "m", "e">>), Str(<<"x">>),
     Arr(<<Str(<<"m", "e", "c", "h", "a", "n", "i", "s", "m">>)>>), Arr(<<>>), Num(7), None,
     Obj([agent |-> None]), Obj([agent |-> Obj([guid |-> Num(12)])]),
     Obj([capabilities |-> Num(3)])}

EventFrames ==
    {TextFrame(Event(TS_Z, e, d)) : e \in EventNames \cup {Num(1), None}, d \in DataValues}
    \cup
    {TextFrame(Obj([type |-> Str(T_event), timestamp |-> TS_Z, event |-> e])) :
        e \in EventNames}
    \cup
    {TextFrame(Obj([type |-> Str(T_event), timestamp |-> TS_Z, data |-> d])) :
        d \in DataValues}

Timestamps ==
    {TS_Z, TS_plus2, TS_minus5, TS_millis, TS_naive, TS_plus10, TS_invalid,
     Str(<<"2", "0", "2", "4", "-", "0", "2", "-", "3", "0", "T", "1", "0", ":", "0", "0", ":", "0", "0", "Z">>), Str(<<"2", "0", "2", "4", "-", "0", "1", "-", "1", "5", "T", "2", "4", ":", "0", "0", ":", "0", "0", "Z">>),
     Str(<<"2", "0", "2", "4", "-", "0", "1", "-", "1", "5">>), Str(<<"2", "0", "2", "4", "-", "0", "1", "-", "1", "5", " ", "0", "7", ":", "0", "5", ":", "0", "9", "+", "0", "0", ":", "0", "0">>), Num(1705329000), None}

TimestampFrames ==
    {TextFrame(Event(ts, E_deployDone, EmptyDict)) : ts \in Timestamps}
    \cup
    {TextFrame(Stats(ts, Obj(StatsData))) : ts \in Timestamps}
    \cup
    {TextFrame(Stats(TS_Z, d)) :
        d \in DataValues \cup {Obj([x \in DOMAIN StatsData \ {k} |-> StatsData[x]]) :
                                  k \in DOMAIN StatsData}}

RenderFrames == Frames \cup WorkFrames \cup TypeFrames \cup EventFrames \cup TimestampFrames

\* What monitor_weft has printed when it enters the loop.
Preamble ==
    <<Line("Connecting to Weft WebSocket", <<>>),
      Line("Connected to Weft", <<>>),
      Line("Subscribing to work and agent events...", <<>>),
      Blank>>

\* monitor_weft in its loop, both subscriptions sent, one frame delivered.
InitRender ==
    /\ pc = "loop"
    /\ ws = "open"
    /\ attempts = 1
    /\ sent = <<Subscribe(T_topicWork), Subscribe(T_topicAgents)>>
    /\ wire \in {<<f>> : f \in RenderFrames}
    /\ handled = 0
    /\ out = Preamble
    /\ seg = <<>>
    /\ sentAtFirst = -1
    /\ interrupt = "none"
    /\ stderr = <<>>
    /\ exit = "running"

NextRender == HandleFrame

SpecRender == InitRender /\ [][NextRender]_vars

---------------------------------------------------------------------------
(* Properties                                                              *)

\* The lines frame i produced.
SegmentLines(i) == SubSeq(out, seg[i].from + 1, seg[i].to)

LabelsOf(lines) == {lines[j].label : j \in 1..Len(lines)}
LinesOf(lines)  == {lines[j] : j \in 1..Len(lines)}

\* Frame i's loop body ran to its end: the interrupt did not cut it.
Completed(i) == ~(i = handled /\ interrupt = "body")

IsJsonObject(f) == f.form = "json" /\ f.value.k = "obj"

HasType(f, text) ==
    /\ IsJsonObject(f)
    /\ "type" \in DOMAIN f.value.o
    /\ f.value.o["type"] = Str(text)

\* `p` is a prefix of `s`, said without startswith.
HasPrefix(s, p) == \E n \in 0..Len(s) : SubSeq(s, 1, n) = p

\* An event message that gets as far as its '[timestamp] event' line, with
\* a name that is text.
IsEventWithHeader(f) ==
    /\ HasType(f, T_event)
    /\ {"timestamp", "event", "data"} \subseteq DOMAIN f.value.o
    /\ FormatTimestamp(f.value.o["timestamp"]).exc = "none"
    /\ f.value.o["event"].k = "str"

HeaderLine(f) ==
    Line("event", <<FormatTimestamp(f.value.o["timestamp"]).val, f.value.o["event"]>>)

ErrorLine(exc) == Line("Error handling message", <<Error(exc)>>)

BothSubscriptions == <<Subscribe(T_topicWork), Subscribe(T_topicAgents)>>

(* C4: once the connection is open monitor_weft sends the work            *)
(* subscription and then the agents subscription and nothing else, ever:  *)
(* what was sent is always a prefix of those two, both are out before the *)
(* loop starts and before the first frame is taken, and nothing is sent   *)
(* without a connection.                                                  *)
C4_ExactlyTwoSubscriptions ==
    /\ sent \in {<<>>, <<Subscribe(T_topicWork)>>, BothSubscriptions}
    /\ (pc = "loop" \/ handled > 0) => sent = BothSubscriptions
    /\ handled > 0 => sentAtFirst = 2
    /\ ws = "none" => sent = <<>>

\* A run that took two frames and ended, with exactly the two sent.
C4_Witness ==
    /\ pc = "done"
    /\ handled = 2
    /\ sentAtFirst = 2
    /\ sent = BothSubscriptions

\* The connection was never established and neither the start nor the
\* connect was interrupted: websockets.connect raised.
ConnectFailed ==
    /\ ws = "none"
    /\ pc \in {"returned", "done"}
    /\ interrupt \notin {"main", "connect"}

(* C5: whichever way connecting fails, the run reports it (the            *)
(* 'WebSocket error' line for a WebSocketException, the traceback of the  *)
(* uncaught exception for an OSError), connects no second time and sends  *)
(* no subscription.                                                       *)
C5_ConnectFailureEndsRun ==
    /\ attempts <= 1
    /\ ConnectFailed =>
          /\ attempts = 1
          /\ sent = <<>>
          /\ handled = 0
          /\ \/ \E j \in 1..Len(out) :
                   /\ out[j].label = "WebSocket error"
                   /\ stderr = <<>>
             \/ /\ stderr = <<Line("Traceback", <<Error("OSError")>>)>>
                /\ exit = "uncaught"

\* The operating system refused the connection: nothing caught the OSError.
C5_Witness ==
    /\ ConnectFailed
    /\ pc = "done"
    /\ exit = "uncaught"
    /\ stderr # <<>>

ShutdownNotices == {Line("Shutting down...", <<>>), Line("Disconnected", <<>>)}

(* C6: wherever the interrupt is delivered, the loop does not go on: the  *)
(* connection is not left open, the last line printed is a shutdown       *)
(* notice, nothing reaches the traceback, and the process ends cleanly.   *)
C6_InterruptEndsRunCleanly ==
    interrupt # "none" =>
        /\ pc \in {"returned", "done"}
        /\ ws # "open"
        /\ out # <<>>
        /\ out[Len(out)] \in ShutdownNotices
        /\ stderr = <<>>
        /\ exit # "uncaught"
        /\ pc = "done" => exit = "clean"

\* The interrupt came in the middle of a loop body that had printed
\* something, and the run has ended.
C6_Witness ==
    /\ interrupt = "body"
    /\ pc = "done"
    /\ exit = "clean"
    /\ ws = "closed"
    /\ Len(SegmentLines(handled)) > 0

IsPrefixOf(p, s) == Len(p) <= Len(s) /\ SubSeq(s, 1, Len(p)) = p

(* C10: the frames are taken one by one in arrival order, each exactly    *)
(* once; the lines of one frame follow directly on those of the frame     *)
(* before; and the lines of a frame are those of the loop body on that    *)
(* frame alone (a prefix of them when the interrupt cut the body),        *)
(* whatever came before it.                                               *)
C10_FramesInOrderIndependently ==
    /\ Len(seg) = handled
    /\ handled <= Len(wire)
    /\ \A i \in 1..handled :
          /\ seg[i].from = (IF i = 1 THEN Len(Preamble) ELSE seg[i - 1].to)
          /\ seg[i].to <= Len(out)
          /\ IF Completed(i)
             THEN SegmentLines(i) = LoopBody(wire[i]).lines
             ELSE IsPrefixOf(SegmentLines(i), LoopBody(wire[i]).lines)
    /\ handled > 0 =>
          \A j \in (seg[handled].to + 1)..Len(out) :
             out[j].label \in {"WebSocket error", "Shutting down...", "Disconnected"}

\* A frame that is not JSON, then a work event, both rendered.
C10_Witness ==
    /\ handled = 2
    /\ wire[1] = F_garbage
    /\ wire[2] = F_workZ
    /\ Len(SegmentLines(2)) = 6

\* Handling the decoded value of frame f raises.
RaisesInHandling(f) == f.form = "json" /\ handle_message(f.value).exc # "none"

(* C2: when a frame decodes but handling it raises, the step that takes   *)
(* the frame prints what handle_message had printed and then the 'Error   *)
(* handling message' line, and leaves the loop running on an open         *)
(* connection.                                                            *)
C2_HandlingErrorIsCaught ==
    [][(/\ handled' = handled + 1
        /\ interrupt' = interrupt
        /\ RaisesInHandling(wire[handled + 1]))
       => (/\ pc' = "loop"
           /\ ws' = "open"
           /\ exit' = "running"
           /\ out' = out \o handle_message(wire[handled + 1].value).lines
                         \o <<ErrorLine(handle_message(wire[handled + 1].value).exc)>>)]_vars

\* A stats message without 'work' failed half way, and the frame after it
\* was rendered.
C2_Witness ==
    /\ handled = 2
    /\ wire[1] = F_statsNoWork
    /\ Len(SegmentLines(1)) = 5
    /\ wire[2] = F_agent
    /\ SegmentLines(2) = handle_message(F_agent.value).lines
    /\ pc = "loop"
    /\ ws = "open"

(* C1: a frame that is not valid JSON produces the 'Failed to parse       *)
(* message' line and nothing else, and every valid frame after it is      *)
(* still decoded and passed to handle_message.                            *)
C1_MalformedFrameIsParseFailure ==
    \A i \in 1..handled :
        (wire[i].form # "json" /\ Completed(i)) =>
            /\ SegmentLines(i) = <<Line("Failed to parse message", <<Raw(wire[i])>>)>>
            /\ \A j \in (i + 1)..handled :
                  (wire[j].form = "json" /\ Completed(j) /\ ~RaisesInHandling(wire[j])) =>
                      SegmentLines(j) = handle_message(wire[j].value).lines

\* Timestamps that denote one instant, 14:30:00 UTC on 15 January 2024,
\* written with three different offsets.
SameInstant == {TS_Z, TS_plus2, TS_minus5}

\* Frame i is an event or stats message stamped with that instant, and its
\* first line, the one that carries the time, was printed.
StampedSameInstant(i) ==
    /\ HasType(wire[i], T_event) \/ HasType(wire[i], T_stats)
    /\ "timestamp" \in DOMAIN wire[i].value.o
    /\ wire[i].value.o["timestamp"] \in SameInstant
    /\ Len(SegmentLines(i)) > 0
    /\ SegmentLines(i)[1].label \in {"event", "Stats Update"}

RenderedTime(i) == SegmentLines(i)[1].val[1]

(* C8: a timestamp with the Z suffix for 14:30:00 renders 14:30:00, and   *)
(* two timestamps that denote the same instant with different offsets     *)
(* render the same time.                                                  *)
C8_SameInstantSameTime ==
    \A i \in 1..handled :
        StampedSameInstant(i) =>
            /\ wire[i].value.o["timestamp"] = TS_Z =>
                  RenderedTime(i) = Str(<<"1", "4", ":", "3", "0", ":", "0", "0">>)
            /\ \A j \in 1..handled :
                  StampedSameInstant(j) => RenderedTime(j) = RenderedTime(i)

\* A decoded message the if/elif chain has no branch for: no type, pong,
\* or any type other than ack, event, stats and error.
IsQuiet(f) ==
    /\ IsJsonObject(f)
    /\ \/ "type" \notin DOMAIN f.value.o
       \/ f.value.o["type"] \notin {Str(T_ack), Str(T_event), Str(T_stats), Str(T_error)}

(* C7: a decoded message of type pong, of an unknown type or without a    *)
(* type prints nothing and raises nothing, whatever else it carries: the  *)
(* output is what it was before the frame and the loop is still running.  *)
C7_QuietTypesPrintNothing ==
    (handled = 1 /\ IsQuiet(wire[1])) =>
        /\ SegmentLines(1) = <<>>
        /\ out = Preamble
        /\ pc = "loop"
        /\ ws = "open"
        /\ exit = "running"

\* A pong that carries every field the other branches read.
C7_Witness ==
    /\ handled = 1
    /\ HasType(wire[1], T_pong)
    /\ ExtraFields \subseteq DOMAIN wire[1].value.o
    /\ out = Preamble

\* The branch an event name selects.
BranchOf(name) ==
    IF HasPrefix(name, T_work) THEN "work"
    ELSE IF HasPrefix(name, T_agent) THEN "agent"
    ELSE IF HasPrefix(name, T_target) \/ HasPrefix(name, T_spinup) THEN "target"
    ELSE "default"

\* The field lines a branch can print.
BranchLabels(branch) ==
    CASE branch = "work"    -> {"Task ID", "Capability", "Boundary", "Priority", "Description",
                                "Assigned to", "Error", "Summary", "Progress"}
      [] branch = "agent"   -> {"Agent", "Status", "Tasks", "Capabilities", "Boundaries",
                                "Reason", "Graceful"}
      [] branch = "target"  -> {"Target", "Agent Type", "Mechanism", "Error", "Duration"}
      [] branch = "default" -> {}

(* C9: an event whose name starts with none of the four prefixes prints   *)
(* its '[timestamp] event' line and the blank line and nothing else; and  *)
(* for every event name the field lines are those of one branch only,     *)
(* the branch of the name's prefix, which prints all of its lines when    *)
(* data holds every key.                                                  *)
C9_OneBranchPerEventName ==
    (handled = 1 /\ IsEventWithHeader(wire[1])) =>
        LET f      == wire[1]
            lines  == SegmentLines(1)
            branch == BranchOf(f.value.o["event"].s)
        IN  /\ lines[1] = HeaderLine(f)
            /\ LabelsOf(Tail(lines)) \subseteq
                  BranchLabels(branch) \cup {"", "Error handling message"}
            /\ branch = "default" => lines = <<HeaderLine(f), Blank>>
            /\ f.value.o["data"] = Obj(AllKeysData) =>
                  LabelsOf(lines) = BranchLabels(branch) \cup {"event", ""}

\* 'deploy:done' with the keys of every branch in data: two lines.
C9_Witness ==
    /\ handled = 1
    /\ wire[1] = TextFrame(Event(TS_Z, E_deployDone, Obj(AllKeysData)))
    /\ SegmentLines(1) = <<HeaderLine(wire[1]), Blank>>

\* An event message with a work: name that gets as far as its header line
\* and whose data is a JSON object.
IsWorkEvent(f) ==
    /\ IsEventWithHeader(f)
    /\ HasPrefix(f.value.o["event"].s, T_work)
    /\ f.value.o["data"].k = "obj"

\* The line of the output that shows a field of a work event.
WorkLabel(field) ==
    CASE field = "taskId"       -> "Task ID"
      [] field = "capability"   -> "Capability"
      [] field = "boundary"     -> "Boundary"
      [] field = "priority"     -> "Priority"
      [] field = "description"  -> "Description"
      [] field = "assignedTo"   -> "Assigned to"
      [] field = "errorMessage" -> "Error"
      [] field = "summary"      -> "Summary"
      [] field = "progress"     -> "Progress"

\* The fields in the order their lines are printed.
WorkFieldOrder ==
    <<"taskId", "capability", "boundary", "priority", "description",
      "assignedTo", "errorMessage", "summary", "progress">>

(* C3 as stated: in a work event each of the nine fields has its line in  *)
(* the output exactly when it is present in data.                         *)
C3_FieldLineIffPresent ==
    (handled = 1 /\ IsWorkEvent(wire[1])) =>
        \A field \in WorkFields :
            (field \in DOMAIN wire[1].value.o["data"].o)
                <=> (WorkLabel(field) \in LabelsOf(SegmentLines(1)))

\* assignedTo is there and assignedToAgent is there but is no object: the
\* lookup of agentType in it raises.
AgentLookupFails(d) ==
    /\ "assignedTo" \in DOMAIN d
    /\ "assignedToAgent" \in DOMAIN d
    /\ d["assignedToAgent"].k # "obj"

\* The value a field's line shows.
WorkShown(d, field) ==
    CASE field = "taskId" ->
            IF "taskId" \in DOMAIN d THEN d["taskId"] ELSE Str(T_unknown)
      [] field = "assignedTo" ->
            IF /\ "assignedToAgent" \in DOMAIN d
               /\ "agentType" \in DOMAIN d["assignedToAgent"].o
            THEN d["assignedToAgent"].o["agentType"]
            ELSE d["assignedTo"]
      [] OTHER -> d[field]

\* The field has a line: the task id always, any other field when it is
\* present, and from assignedTo on only if the agent lookup does not fail.
WorkVisible(d, field) ==
    \/ field = "taskId"
    \/ /\ field \in DOMAIN d
       /\ AgentLookupFails(d) =>
             field \in {"capability", "boundary", "priority", "description"}

RECURSIVE WorkLines(_, _)
WorkLines(d, n) ==
    IF n = 0 THEN <<>>
    ELSE WorkLines(d, n - 1) \o
         (IF WorkVisible(d, WorkFieldOrder[n])
          THEN <<Line(WorkLabel(WorkFieldOrder[n]), <<WorkShown(d, WorkFieldOrder[n])>>)>>
          ELSE <<>>)

(* C3, amended: in a work event whose data is an object the output is the *)
(* header, a Task ID line in every case ('unknown' without a taskId),     *)
(* then one line for each of the other eight fields that is present and   *)
(* none for one that is absent, in source order, then the blank line;     *)
(* except that when assignedTo is present beside an assignedToAgent that  *)
(* is no object, the output stops before the 'Assigned to' line and ends  *)
(* with the AttributeError's 'Error handling message' line.  Data that is *)
(* no object gives the header and that error line only.                   *)
C3_WorkFieldsRendered ==
    (/\ handled = 1
     /\ IsEventWithHeader(wire[1])
     /\ HasPrefix(wire[1].value.o["event"].s, T_work)) =>
        LET data == wire[1].value.o["data"]
        IN  SegmentLines(1) =
               IF data.k # "obj"
               THEN <<HeaderLine(wire[1]), ErrorLine("AttributeError")>>
               ELSE <<HeaderLine(wire[1])>>
                    \o WorkLines(data.o, Len(WorkFieldOrder))
                    \o (IF AgentLookupFails(data.o)
                        THEN <<ErrorLine("AttributeError")>>
                        ELSE <<Blank>>)

\* A work event with all nine fields and an assignedToAgent that has an
\* agentType: header, nine lines, blank.
C3_Witness ==
    /\ handled = 1
    /\ IsWorkEvent(wire[1])
    /\ WorkFields \subseteq DOMAIN wire[1].value.o["data"].o
    /\ "assignedToAgent" \in DOMAIN wire[1].value.o["data"].o
    /\ Len(SegmentLines(1)) = 11
    /\ SegmentLines(1)[7] = Line("Assigned to", <<V_developer>>)

===========================================================================
